---------------------------- MODULE Spec2Model ----------------------------
(***************************************************************************)
(* State-machine model of the splat reducer: the voxel-grid merge          *)
(* (lod_merge.py), the random subsampler (lod.py), the requests of the web *)
(* server (server.py) and the import and export handlers of the desktop    *)
(* window (lod_ui.py).                                                     *)
(*                                                                         *)
(* Numbers.  A floating-point attribute value is an exact integer number   *)
(* of quanta; the quantum is an arbitrary power-of-two-free scale, because *)
(* everything the merge does to positions and averaged attributes is       *)
(* scale-free.  Input values are multiples of Step, the least common       *)
(* multiple of 1..MaxPoints, so that a group mean is a whole number of     *)
(* quanta.  float32 accumulation is modelled by rounding every running sum *)
(* to 24 significant bits; the last rounding of a quotient that is already *)
(* a whole number of quanta (at most 2^-24 relative) is not represented.   *)
(* An integer-typed attribute value is the integer itself; the value of a  *)
(* list property is the sequence of its integers.                          *)
(***************************************************************************)
EXTENDS Integers, Sequences, FiniteSets, TLC

VARIABLES
    prog,        \* which script runs: "lod_merge" or "lod"
    pc,          \* position inside main()
    run,         \* 1 for the first invocation, 2 for the repeated one
    argc,        \* len(sys.argv)
    voxel_size,  \* float(sys.argv[2]) of lod_merge.py, in 1/SizeUnits of a quantum
    keep_pct,    \* float(sys.argv[2]) of lod.py, in hundredths
    ply,         \* the input file: [names, rows]
    build,       \* what the platform's float -> int32 conversion does out of range
    data,        \* lod_merge: np.array(vertices); lod: vertices_np
    vox_keys,    \* lod_merge: list of voxel-key tuples, one per point
    voxel_dict,  \* lod_merge: insertion-ordered dict, a sequence of [key, indices]
    merged,      \* lod_merge: the structured output array
    total,       \* lod: len(vertices_np)
    keep,        \* lod: int(total * keep_ratio)
    idx,         \* lod: the indices np.random.choice drew
    reduced,     \* lod: vertices_np[idx]
    exc,         \* the exception that ended main(), or "none"
    caught,      \* lod_merge: the cells <<idx, name>> whose except clause ran
    output,      \* the output file on disk: [written, names, rows]
    firstOut,    \* the output file the first invocation left behind
    progress_data,      \* server.py: the global progress dict
    current_task_data,  \* server.py: the global task dict; 0 stands for None
    uploads,     \* server.py: the files of UPLOAD_DIR, a set of [id, rows]
    results,     \* server.py: the files of RESULT_DIR, a set of [id, rows]
    calls,       \* server.py: per /compress request, the handler and its task
    getters,     \* server.py: per GET /result request, the handler and its thread
    cleaner,     \* server.py: the POST /cleanup request
    printed,     \* the counts the script printed: [original, kept]
    gui          \* lod_ui.py: the window, its buttons and its worker threads

serverVars == <<progress_data, current_task_data, uploads, results, calls,
                getters, cleaner>>

vars == <<prog, pc, run, argc, voxel_size, keep_pct, ply, build, data, vox_keys,
          voxel_dict, merged, total, keep, idx, reduced, exc, caught, output,
          firstOut, printed, gui, serverVars>>

mergeVars == <<data, vox_keys, voxel_dict, merged>>
lodVars == <<total, keep, idx, reduced>>
inputVars == <<prog, argc, voxel_size, keep_pct, ply, build>>

---------------------------------------------------------------------------
(* Bounds and input families *)

MaxPoints == 3

Abs(a) == IF a < 0 THEN -a ELSE a

RECURSIVE Gcd(_, _)
Gcd(a, b) == IF b = 0 THEN a ELSE Gcd(b, a % b)

RECURSIVE LcmUpTo(_)
LcmUpTo(n) == IF n <= 1 THEN 1
              ELSE LET l == LcmUpTo(n - 1) IN (l * n) \div Gcd(l, n)

\* every float input is a multiple of Step
Step == LcmUpTo(MaxPoints)

\* a float32 significand holds 24 bits
F32Precision == 2^24

SeqsUpTo(S, n) == UNION {[1..k -> S] : k \in 0..n}

Range(s) == {s[i] : i \in DOMAIN s}

\* the kinds of attribute a vertex element can hold
Kind(name) == CASE name \in {"x", "y", "z", "nx", "ny", "nz", "opacity"} -> "f4"
                [] name = "red" -> "u1"
                [] OTHER -> "O"

GeoNames == <<"x", "y", "z">>
GeoPositions == {<<0, 0, 0>>, <<1, 0, 0>>, <<-1, 0, 0>>,
                 <<3, 3, 3>>, <<0, 3, 0>>, <<0, 0, -1>>}
GeoRow(p) == [n \in Range(GeoNames) |->
                 Step * (CASE n = "x" -> p[1] [] n = "y" -> p[2] [] OTHER -> p[3])]
GeoFiles == {[names |-> GeoNames, rows |-> r] :
                r \in SeqsUpTo({GeoRow(p) : p \in GeoPositions}, MaxPoints)}

\* a float32 value so large that adding Step to it is absorbed
Big == 2 * F32Precision * Step

\* files with a float attribute: cancellation inside one voxel
FloatNames == <<"x", "y", "z", "opacity">>
FloatRow(cx, o) == [n \in Range(FloatNames) |->
                      CASE n = "x" -> cx * Step [] n = "opacity" -> o [] OTHER -> 0]
FloatFiles == {[names |-> FloatNames, rows |-> r] :
                r \in SeqsUpTo({FloatRow(cx, o) : cx \in {0, 3}, o \in {Big, Step, -Big}},
                               MaxPoints)}

\* files with an integer-typed attribute
IntNames == <<"x", "y", "z", "red">>
IntRow(cx, c) == [n \in Range(IntNames) |->
                    CASE n = "x" -> cx * Step [] n = "red" -> c [] OTHER -> 0]
IntFiles == {[names |-> IntNames, rows |-> r] :
                r \in SeqsUpTo({IntRow(cx, c) : cx \in {0, 3}, c \in {0, 1}}, MaxPoints)}

\* files with a list property ("property list uchar int tag"): an object
\* column whose cells are integer arrays, here of two or of three elements
ListNames == <<"x", "y", "z", "tag">>
Tags == {<<2, 4>>, <<4, 9>>, <<1, 2, 3>>}
ListRow(cx, t) == [n \in Range(ListNames) |->
                     CASE n = "x" -> cx * Step [] n = "tag" -> t [] OTHER -> 0]
ListFiles == {[names |-> ListNames, rows |-> r] :
                r \in SeqsUpTo({ListRow(cx, t) : cx \in {0, 3}, t \in Tags}, MaxPoints)}

\* files with normals; the quantum of nx, ny, nz is 1e-9
NormalNames == <<"x", "y", "z", "nx", "ny", "nz">>
NormalRow(cx, v) == [n \in Range(NormalNames) |->
                       CASE n = "x" -> cx * Step [] n = "nx" -> v[1] [] n = "ny" -> v[2]
                         [] n = "nz" -> v[3] [] OTHER -> 0]
\* normals along one direction, (3, 4, 0) / 5, so that the length of every
\* averaged normal is a whole number of quanta: of about 0.002 and of 3e-8
NormalUnit == 2^16 * Step
LargeNormals == {<<3 * NormalUnit, 4 * NormalUnit, 0>>,
                 <<-3 * NormalUnit, -4 * NormalUnit, 0>>}
TinyNormals == {<<3 * Step, 4 * Step, 0>>, <<-3 * Step, -4 * Step, 0>>}
NormalFiles == {[names |-> NormalNames, rows |-> r] :
                r \in SeqsUpTo({NormalRow(cx, v) : cx \in {0, 3}, v \in LargeNormals},
                               MaxPoints)
                       \cup SeqsUpTo({NormalRow(cx, v) : cx \in {0, 3}, v \in TinyNormals},
                                     MaxPoints)}

\* files that have nx and ny but no nz
PartialNames == <<"x", "y", "z", "nx", "ny">>
PartialRow(cx, v) == [n \in Range(PartialNames) |->
                        CASE n = "x" -> cx * Step [] n = "nx" -> v[1] [] n = "ny" -> v[2]
                          [] OTHER -> 0]
PartialFiles == {[names |-> PartialNames, rows |-> r] :
                   r \in SeqsUpTo({PartialRow(cx, v) : cx \in {0, 3}, v \in LargeNormals},
                                  MaxPoints)}

\* files with a list property of floats ("property list uchar float weights"):
\* an object column whose cells are float32 arrays.  A weight is a whole
\* number of 1/WeightUnits, so <<3, 4>> is the list (1.5, 2.0)
WeightUnits == 2
WeightNames == <<"x", "y", "z", "weights">>
Weights == {<<3, 4>>, <<2>>}
WeightRow(cx, w) == [n \in Range(WeightNames) |->
                       CASE n = "x" -> cx * Step [] n = "weights" -> w [] OTHER -> 0]
WeightFiles == {[names |-> WeightNames, rows |-> r] :
                  r \in SeqsUpTo({WeightRow(cx, w) : cx \in {0, 3}, w \in Weights},
                                 MaxPoints)}

AttrFiles == FloatFiles \cup IntFiles \cup ListFiles \cup NormalFiles \cup PartialFiles

\* a voxel size is a whole number of 1/SizeUnits of a quantum, so that a voxel
\* can be much smaller than the spacing of the coordinates
SizeUnits == 2^10

\* voxel sizes the merge is meant for
ValidSizes == {2 * Step * SizeUnits, Step * SizeUnits}

VoxelSizes == ValidSizes \cup {0, -Step * SizeUnits}

\* files whose points lie far from the origin, measured in voxels
FarPositions == {<<0, 0, 0>>, <<1, 0, 0>>, <<2^19, 0, 0>>, <<2^20, 0, 0>>,
                 <<-(2^20), 0, 0>>}
FarFiles == {[names |-> GeoNames, rows |-> r] :
                r \in SeqsUpTo({GeoRow(p) : p \in FarPositions}, MaxPoints)}

\* the smallest voxel size, 1/SizeUnits of a quantum, and an ordinary one
FarSizes == {1, Step * SizeUnits}

\* input files of the subsampler
SubFiles == {[names |-> GeoNames, rows |-> r] :
                r \in SeqsUpTo({GeoRow(p) : p \in {<<0, 0, 0>>, <<1, 0, 0>>}}, MaxPoints)}

\* keep ratios, in hundredths; the desktop slider yields value / 100.0
KeepPcts == {-50, -10, 0, 34, 50, 100, 120, 150}

Builds == {"x86", "arm"}

\* what np.empty may hold
Garbage == {0, 1}

NoOutput == [written |-> FALSE, names |-> <<>>, rows |-> <<>>]

---------------------------------------------------------------------------
(* server.py: the module-level state *)

\* the /compress requests the model follows
Calls == {1, 2}

\* lines 30-34 and 212-216
IdleProgress == [status |-> "idle", progress |-> 0, message |-> <<>>]

\* lines 37-41 and 219-223
NoTask == [input_path |-> 0, result_path |-> 0, task_id |-> 0]

\* a request that has not been made; order is the rank of the request among
\* those answered with 202 (0: not answered so)
NoCall == [pc |-> "none", kind |-> "none", rows |-> <<>>, keep_ratio |-> 0,
           total |-> 0, keep |-> 0, idx |-> <<>>, reduced |-> <<>>,
           response |-> 0, error |-> "none", timer |-> "none", order |-> 0]

\* the GET /result requests the model follows
Getters == {1, 2}

\* a /result request that has not been made; sweeper is the thread of
\* cleanup_after_download
NoGetter == [pc |-> "none", path |-> 0, served |-> 0, response |-> 0,
             sweeper |-> "none"]

\* the /cleanup request before it is made
NoCleaner == [pc |-> "none", response |-> 0]

\* the state of the module after import, before any request
ServerAtImport ==
    /\ progress_data = IdleProgress
    /\ current_task_data = NoTask
    /\ uploads = {}
    /\ results = {}
    /\ calls = [c \in Calls |-> NoCall]
    /\ getters = [g \in Getters |-> NoGetter]
    /\ cleaner = NoCleaner

---------------------------------------------------------------------------
(* lod_ui.py: the window after PLYCompressorApp.__init__ *)

\* the exports the model follows, each with a WorkerThread of its own
Workers == {1, 2}

\* a WorkerThread that has not been created
NoWorker == [pc |-> "none", input |-> 0, success |-> FALSE]

\* lines 59-64, 169 and 377: no input file, both buttons disabled; dialog is
\* the modal file dialog that is open, worker is self.worker (0: not set)
GuiAtStart ==
    [input_file |-> 0, preview_btn |-> FALSE, export_btn |-> FALSE,
     dialog |-> "none", worker |-> 0, app |-> "running",
     workers |-> [w \in Workers |-> NoWorker]]

---------------------------------------------------------------------------
(* what a script prints about its counts *)

\* nothing printed yet
NoSummary == [original |-> -1, kept |-> -1]

\* a summary that reports the number of points as the number of voxels
MergeSummaryPoints(d, dict) == [original |-> Len(d), kept |-> Len(d)]

\* lod_merge.py lines 40-41: "Original splats", "Voxels created"
MergeSummary(d, dict) == [original |-> Len(d), kept |-> Len(dict)]

\* lod.py lines 25-26: "Total splats", "Keeping ... splats"
LodSummary(n, k) == [original |-> n, kept |-> k]

---------------------------------------------------------------------------
(* lod_merge.py: voxel keys *)

Int32Max == 2147483647
Int32Min == -Int32Max - 1

\* astype(np.int32) of a value that is infinite, NaN or out of range is
\* undefined: x86 yields INT_MIN, a saturating conversion clamps and maps NaN to 0
OutOfRangeCast(sign, b) ==
    IF b = "x86" THEN Int32Min
    ELSE IF sign > 0 THEN Int32Max ELSE IF sign < 0 THEN Int32Min ELSE 0

AsInt32(q, b) ==
    IF q >= Int32Min /\ q <= Int32Max THEN q
    ELSE OutOfRangeCast(q, b)

\* int(c / voxel_size): the quotient with its fraction dropped
VoxelIndexTruncated(c, vs, b) ==
    IF vs = 0 THEN OutOfRangeCast(c, b)
    ELSE LET d == Abs(vs) \div SizeUnits
         IN IF d = 0 THEN OutOfRangeCast(c, b)
            ELSE IF (c < 0) = (vs < 0) THEN Abs(c) \div d ELSE -(Abs(c) \div d)

\* np.floor(c / voxel_size).astype(np.int32) for one coordinate.  The size is
\* either a whole number of quanta or a whole fraction 1/k of a quantum; in
\* the second case the quotient c * k may leave the int32 range.
VoxelIndex(c, vs, b) ==
    IF vs = 0 THEN OutOfRangeCast(c, b)      \* c / 0.0 is +-inf, 0 / 0.0 is NaN
    ELSE LET n == IF vs > 0 THEN c ELSE -c
             d == Abs(vs)
         IN IF d % SizeUnits = 0 THEN AsInt32(n \div (d \div SizeUnits), b)
            ELSE LET k == SizeUnits \div d
                 IN IF Abs(n) <= Int32Max \div k THEN AsInt32(n * k, b)
                    ELSE OutOfRangeCast(n, b)

VoxelKey(row, vs, b) ==
    <<VoxelIndex(row["x"], vs, b), VoxelIndex(row["y"], vs, b),
      VoxelIndex(row["z"], vs, b)>>

VoxKeys(d, vs, b) == [i \in 1..Len(d) |-> VoxelKey(d[i], vs, b)]

---------------------------------------------------------------------------
(* lod_merge.py: grouping.  A Python dict keeps insertion order: it is a   *)
(* sequence of entries [key, indices]; point indices are 0-based.          *)

DictFind(dict, key) ==
    LET hits == {j \in 1..Len(dict) : dict[j].key = key}
    IN IF hits = {} THEN 0 ELSE CHOOSE j \in hits : TRUE

\* the iteration without the "if key not in voxel_dict" test: the bucket is
\* started afresh at every point
GroupStepReset(dict, i, key) ==
    IF DictFind(dict, key) = 0
    THEN Append(dict, [key |-> key, indices |-> <<i>>])
    ELSE [dict EXCEPT ![DictFind(dict, key)].indices = <<i>>]

\* the iteration putting the new index in front of the bucket
GroupStepPrepend(dict, i, key) ==
    LET created == IF DictFind(dict, key) = 0
                   THEN Append(dict, [key |-> key, indices |-> <<>>])
                   ELSE dict
        j == DictFind(created, key)
    IN [created EXCEPT ![j].indices = <<i>> \o @]

\* one iteration of "for i, key in enumerate(vox_keys)"
GroupStep(dict, i, key) ==
    LET created == IF DictFind(dict, key) = 0
                   THEN Append(dict, [key |-> key, indices |-> <<>>])
                   ELSE dict
        j == DictFind(created, key)
    IN [created EXCEPT ![j].indices = Append(@, i)]

\* the loop from point i on; the one-element set holds the dict after the
\* iteration, which is then worked out once
RECURSIVE GroupFrom(_, _, _)
GroupFrom(dict, keys, i) ==
    IF i >= Len(keys) THEN dict
    ELSE CHOOSE r \in {GroupFrom(next, keys, i + 1) :
                          next \in {GroupStep(dict, i, keys[i + 1])}} : TRUE

Group(keys) == GroupFrom(<<>>, keys, 0)

---------------------------------------------------------------------------
(* lod_merge.py: aggregation *)

RECURSIVE UlpFrom(_, _)
UlpFrom(a, u) == IF a \div u < F32Precision THEN u ELSE UlpFrom(a, 2 * u)

\* round to nearest float32, ties to even
RoundF32(v) ==
    LET a == Abs(v)
        u == UlpFrom(a, 1)
        q == a \div u
        r == a % u
        up == (2 * r > u) \/ (2 * r = u /\ q % 2 = 1)
        m == (IF up THEN q + 1 ELSE q) * u
    IN IF v < 0 THEN -m ELSE m

\* add.reduce over a float32 column: a running float32 sum, left to right
RECURSIVE SumF32From(_, _, _)
SumF32From(vals, k, acc) ==
    IF k > Len(vals) THEN acc
    ELSE CHOOSE r \in {SumF32From(vals, k + 1, next) :
                          next \in {RoundF32(acc + vals[k])}} : TRUE

SumF32(vals) == IF vals = <<>> THEN 0 ELSE SumF32From(vals, 2, vals[1])

RECURSIVE SumExact(_)
SumExact(vals) == IF vals = <<>> THEN 0 ELSE vals[1] + SumExact(Tail(vals))

\* quotient rounded to the nearest quantum
RoundDiv(a, n) ==
    LET q == Abs(a) \div n
        r == Abs(a) % n
        m == IF 2 * r >= n THEN q + 1 ELSE q
    IN IF a < 0 THEN -m ELSE m

\* C conversion of a double to an integer type: the fraction is dropped
TruncDiv(a, n) == IF a < 0 THEN -((-a) \div n) ELSE a \div n

\* An object column holds one integer array per point.  add.reduce over it
\* adds the arrays with "+": element by element, an array of one element
\* being stretched to the other's length; np.mean then divides the sum by
\* the count, in place and with the cast back to the integer element type.

\* the lengths of the arrays, other than 1
Shapes(vals) == {Len(vals[k]) : k \in 1..Len(vals)} \ {1}

\* "operands could not be broadcast together"
ListSumRaises(vals) == Cardinality(Shapes(vals)) > 1

ListAt(v, k) == IF Len(v) = 1 THEN v[1] ELSE v[k]

ListAdd(a, b) ==
    [k \in 1..(IF Len(a) = 1 THEN Len(b) ELSE Len(a)) |-> ListAt(a, k) + ListAt(b, k)]

RECURSIVE ListSumFrom(_, _, _)
ListSumFrom(vals, k, acc) ==
    IF k > Len(vals) THEN acc
    ELSE CHOOSE r \in {ListSumFrom(vals, k + 1, next) :
                          next \in {ListAdd(acc, vals[k])}} : TRUE

ListSum(vals) == ListSumFrom(vals, 2, vals[1])

\* true_divide(ret, rcount, out=ret, casting='unsafe') on an integer array
ListDiv(v, n) == [k \in 1..Len(v) |-> TruncDiv(v[k], n)]

\* does np.mean raise on this column
MeanRaises(kind, vals) == kind = "O" /\ ListSumRaises(vals)

\* np.sum in the place of np.mean
StoredSum(kind, vals) ==
    IF kind = "f4" THEN SumF32(vals)
    ELSE IF kind = "O" THEN ListSum(vals)
    ELSE SumExact(vals)

\* what "merged[name][idx] = np.mean(subset[name])" stores
StoredMean(kind, vals) ==
    IF kind = "f4" THEN RoundDiv(SumF32(vals), Len(vals))
    ELSE IF kind = "O" THEN ListDiv(ListSum(vals), Len(vals))
    ELSE TruncDiv(SumExact(vals), Len(vals))

Column(d, indices, name) == [k \in 1..Len(indices) |-> d[indices[k] + 1][name]]

\* the body of "for name in dtype.names", for one name
FillField(row, d, indices, name) ==
    LET vals == Column(d, indices, name)
    IN [row EXCEPT ![name] = IF MeanRaises(Kind(name), vals) THEN vals[1]
                             ELSE StoredMean(Kind(name), vals)]

RECURSIVE FillRow(_, _, _, _, _)
RECURSIVE FillRowButLast(_, _, _, _, _)

\* the loop over dtype.names stopping one name early
FillRowButLast(row, d, indices, names, k) ==
    IF k >= Len(names) THEN row
    ELSE CHOOSE r \in {FillRowButLast(next, d, indices, names, k + 1) :
                          next \in {FillField(row, d, indices, names[k])}} : TRUE

FillRow(row, d, indices, names, k) ==
    IF k > Len(names) THEN row
    ELSE CHOOSE r \in {FillRow(next, d, indices, names, k + 1) :
                          next \in {FillField(row, d, indices, names[k])}} : TRUE

KeyLess(a, b) ==
    \/ a[1] < b[1]
    \/ a[1] = b[1] /\ a[2] < b[2]
    \/ a[1] = b[1] /\ a[2] = b[2] /\ a[3] < b[3]

RECURSIVE SortedItems(_)
SortedItems(items) ==
    IF items = <<>> THEN <<>>
    ELSE LET m == CHOOSE j \in 1..Len(items) :
                      \A k \in 1..Len(items) : ~KeyLess(items[k].key, items[j].key)
         IN <<items[m]>> \o SortedItems([k \in 1..(Len(items) - 1) |->
                                            IF k < m THEN items[k] ELSE items[k + 1]])

\* the entries of a map that iterates in key order
DictItemsByKey(dict) == SortedItems(dict)

\* voxel_dict.items(): the entries in insertion order
DictItems(dict) == dict

\* one output row per input point
MergedLenPerPoint(dict, d) == Len(d)

\* len(voxel_dict), the length of the output array
MergedLen(dict, d) == Len(dict)

\* np.empty(n, dtype): n rows of whatever the memory held
Empty(n, names, g) == [i \in 1..n |-> [name \in Range(names) |-> g]]

\* the loop "for idx, (key, indices) in enumerate(voxel_dict.items())"
Aggregate(empty, d, dict, names) ==
    LET items == DictItems(dict)
    IN [i \in 1..Len(empty) |->
           IF i <= Len(items) THEN FillRow(empty[i], d, items[i].indices, names, 1)
           ELSE empty[i]]

\* the cells whose "except:" clause ran, np.mean having raised
Caught(d, dict, names) ==
    {c \in (0..(Len(dict) - 1)) \X Range(names) :
        MeanRaises(Kind(c[2]), Column(d, DictItems(dict)[c[1] + 1].indices, c[2]))}

\* the cells of numeric columns
NumericCells(dict, names) ==
    {c \in (0..(Len(dict) - 1)) \X Range(names) : Kind(c[2]) # "O"}

\* line 55 for one cell: the first value of the group replaces what was stored
CopyFirst(m, d, dict, c) ==
    [m EXCEPT ![c[1] + 1][c[2]] = Column(d, DictItems(dict)[c[1] + 1].indices, c[2])[1]]

\* is point q the only member of its group
SoleMember(dict, q) == \E j \in 1..Len(dict) : dict[j].indices = <<q>>

\* the input array after the means with every array of every group replaced
\* by the group's mean
DataAccumulated(d, dict, names) ==
    [q \in 1..Len(d) |->
        [name \in DOMAIN d[q] |->
            IF Kind(name) = "O"
            THEN LET j == CHOOSE j \in 1..Len(dict) :
                              \E k \in 1..Len(dict[j].indices) : dict[j].indices[k] = q - 1
                     vals == Column(d, dict[j].indices, name)
                 IN IF ListSumRaises(vals) THEN d[q][name]
                    ELSE ListDiv(ListSum(vals), Len(vals))
            ELSE d[q][name]]]

\* the input array after the means.  The sum over an object column of a
\* single point is that point's own array, not a copy, and np.mean divides
\* it in place by the count, 1.
DataAfterMeans(d, dict, names) ==
    [q \in 1..Len(d) |->
        [name \in DOMAIN d[q] |->
            IF Kind(name) = "O" /\ SoleMember(dict, q - 1)
            THEN ListDiv(d[q][name], 1)
            ELSE d[q][name]]]

---------------------------------------------------------------------------
(* lod_merge.py: normalisation of the averaged normals.  The quantum of    *)
(* nx, ny, nz is 1e-9, so the epsilon is one quantum, and a normalised     *)
(* component is kept as the exact fraction component / (norm + epsilon).   *)

Eps == 1

RECURSIVE ISqrtFrom(_, _)
ISqrtFrom(n, r) == IF r * r <= n THEN r ELSE ISqrtFrom(n, (r + n \div r) \div 2)

\* floor of the square root
ISqrt(n) == IF n = 0 THEN 0 ELSE ISqrtFrom(n, IF n < 46340 THEN n ELSE 46340)

Max(a, b) == IF a >= b THEN a ELSE b

\* sqrt(a^2 + b^2 + c^2): exact when the sum of the squares of the components,
\* reduced by their common divisor, is a square below 2^31
Norm(a, b, c) ==
    LET g == Gcd(Abs(a), Gcd(Abs(b), Abs(c)))
        ra == Abs(a) \div g
        rb == Abs(b) \div g
        rc == Abs(c) \div g
        s == (Max(ra, Max(rb, rc)) \div 26000) + 1
    IN IF g = 0 THEN 0
       ELSE g * s * ISqrt((ra \div s) * (ra \div s) + (rb \div s) * (rb \div s)
                          + (rc \div s) * (rc \div s))

\* a / d for d > 0, in lowest terms
Quot(a, d) == LET g == Gcd(Abs(a), d) IN [num |-> a \div g, den |-> d \div g]

\* a normalisation by the sum of the absolute values of the components
NormalizeRowL1(row) ==
    LET norms == Abs(row["nx"]) + Abs(row["ny"]) + Abs(row["nz"]) + Eps
    IN [row EXCEPT !["nx"] = Quot(@, norms), !["ny"] = Quot(@, norms),
                   !["nz"] = Quot(@, norms)]

Sign(a) == IF a > 0 THEN 1 ELSE IF a < 0 THEN -1 ELSE 0

\* a normalisation that, when one of nx, ny, nz is missing, reduces each of
\* the others to its sign
NormalizePresent(m, names) ==
    IF {"nx", "ny", "nz"} \subseteq Range(names)
    THEN [i \in DOMAIN m |->
             LET norms == Norm(m[i]["nx"], m[i]["ny"], m[i]["nz"]) + Eps
             IN [m[i] EXCEPT !["nx"] = Quot(@, norms), !["ny"] = Quot(@, norms),
                             !["nz"] = Quot(@, norms)]]
    ELSE [i \in DOMAIN m |->
             [name \in DOMAIN m[i] |->
                 IF name \in {"nx", "ny", "nz"} THEN Sign(m[i][name]) ELSE m[i][name]]]

NormalizeRow(row) ==
    LET norms == Norm(row["nx"], row["ny"], row["nz"]) + Eps
    IN [row EXCEPT !["nx"] = Quot(@, norms), !["ny"] = Quot(@, norms),
                   !["nz"] = Quot(@, norms)]

\* lines 58-62
Normalize(m, names) ==
    IF {"nx", "ny", "nz"} \subseteq Range(names)
    THEN [i \in DOMAIN m |-> NormalizeRow(m[i])]
    ELSE m

---------------------------------------------------------------------------
(* lod_merge.py: main() *)

InitMergeOn(files, sizes, builds) ==
    /\ prog = "lod_merge"
    /\ pc = "start"
    /\ run = 1
    /\ argc \in {3, 4}
    /\ voxel_size \in sizes
    /\ keep_pct = 0
    /\ ply \in files
    /\ build \in builds
    /\ data = <<>> /\ vox_keys = <<>> /\ voxel_dict = <<>> /\ merged = <<>>
    /\ total = 0 /\ keep = 0 /\ idx = <<>> /\ reduced = <<>>
    /\ exc = "none"
    /\ caught = {}
    /\ output = NoOutput
    /\ firstOut = NoOutput
    /\ printed = NoSummary
    /\ gui = GuiAtStart
    /\ ServerAtImport

\* lines 6-9: too few arguments, print the usage and return
MergeUsage ==
    /\ prog = "lod_merge" /\ pc = "start" /\ argc < 4
    /\ pc' = "usage"
    /\ UNCHANGED <<caught, printed, gui, serverVars>>
    /\ UNCHANGED <<run, inputVars, mergeVars, lodVars, exc, output, firstOut>>

\* lines 11-18
MergeLoad ==
    /\ prog = "lod_merge" /\ pc = "start" /\ argc >= 4
    /\ pc' = "loaded"
    /\ data' = ply.rows
    /\ UNCHANGED <<caught, printed, gui, serverVars>>
    /\ UNCHANGED <<run, inputVars, vox_keys, voxel_dict, merged, lodVars, exc,
                   output, firstOut>>

\* lines 23-31
MergeHash ==
    /\ prog = "lod_merge" /\ pc = "loaded"
    /\ pc' = "hashed"
    /\ vox_keys' = VoxKeys(data, voxel_size, build)
    /\ UNCHANGED <<caught, printed, gui, serverVars>>
    /\ UNCHANGED <<run, inputVars, data, voxel_dict, merged, lodVars, exc,
                   output, firstOut>>

\* lines 34-41
MergeGroup ==
    /\ prog = "lod_merge" /\ pc = "hashed"
    /\ pc' = "grouped"
    /\ voxel_dict' = Group(vox_keys)
    /\ printed' = MergeSummary(data, voxel_dict')
    /\ UNCHANGED <<caught, gui, serverVars>>
    /\ UNCHANGED <<run, inputVars, data, vox_keys, merged, lodVars, exc,
                   output, firstOut>>

\* lines 44-45
MergeAlloc ==
    /\ prog = "lod_merge" /\ pc = "grouped"
    /\ pc' = "allocated"
    /\ \E g \in Garbage : merged' = Empty(MergedLen(voxel_dict, data), ply.names, g)
    /\ UNCHANGED <<caught, printed, gui, serverVars>>
    /\ UNCHANGED <<run, inputVars, data, vox_keys, voxel_dict, lodVars, exc,
                   output, firstOut>>

\* lines 48-55
MergeAggregate ==
    /\ prog = "lod_merge" /\ pc = "allocated"
    /\ pc' = "merged"
    /\ merged' = Aggregate(merged, data, voxel_dict, ply.names)
    /\ caught' = Caught(data, voxel_dict, ply.names)
    /\ data' = DataAfterMeans(data, voxel_dict, ply.names)
    /\ UNCHANGED <<printed, gui, serverVars>>
    /\ UNCHANGED <<run, inputVars, vox_keys, voxel_dict, lodVars, exc,
                   output, firstOut>>

\* lines 48-55 when np.mean raises on one numeric cell: a MemoryError, a
\* KeyboardInterrupt, or a floating-point warning that the warning filter
\* turns into an exception.  The bare "except:" handles it like any other.
MergeAggregateRaising ==
    /\ prog = "lod_merge" /\ pc = "allocated"
    /\ pc' = "merged"
    /\ \E c \in NumericCells(voxel_dict, ply.names) :
           /\ merged' = CopyFirst(Aggregate(merged, data, voxel_dict, ply.names),
                                  data, voxel_dict, c)
           /\ caught' = Caught(data, voxel_dict, ply.names) \cup {c}
    /\ data' = DataAfterMeans(data, voxel_dict, ply.names)
    /\ UNCHANGED <<printed, gui, serverVars>>
    /\ UNCHANGED <<run, inputVars, vox_keys, voxel_dict, lodVars, exc,
                   output, firstOut>>

\* lines 58-62
MergeNormalize ==
    /\ prog = "lod_merge" /\ pc = "merged"
    /\ pc' = "normalized"
    /\ merged' = Normalize(merged, ply.names)
    /\ UNCHANGED <<caught, printed, gui, serverVars>>
    /\ UNCHANGED <<run, inputVars, data, vox_keys, voxel_dict, lodVars, exc,
                   output, firstOut>>

\* lines 65-68
MergeWrite ==
    /\ prog = "lod_merge" /\ pc = "normalized"
    /\ pc' = "done"
    /\ output' = [written |-> TRUE, names |-> ply.names, rows |-> merged]
    /\ UNCHANGED <<caught, printed, gui, serverVars>>
    /\ UNCHANGED <<run, inputVars, mergeVars, lodVars, exc, firstOut>>

\* the same command line is run a second time on the same input file
MergeRerun ==
    /\ prog = "lod_merge" /\ pc = "done" /\ run = 1
    /\ pc' = "start"
    /\ run' = 2
    /\ firstOut' = output
    /\ data' = <<>> /\ vox_keys' = <<>> /\ voxel_dict' = <<>> /\ merged' = <<>>
    /\ caught' = {}
    /\ printed' = NoSummary
    /\ UNCHANGED <<gui, serverVars>>
    /\ UNCHANGED <<inputVars, lodVars, exc, output>>

MergeNext ==
    \/ MergeUsage
    \/ MergeLoad
    \/ MergeHash
    \/ MergeGroup
    \/ MergeAlloc
    \/ MergeAggregate
    \/ MergeNormalize
    \/ MergeWrite
    \/ MergeRerun

\* the merge over position-only files, every voxel size and both platforms
InitMerge == InitMergeOn(GeoFiles, VoxelSizes, Builds)

Spec == InitMerge /\ [][MergeNext]_vars

\* the merge over files that carry attributes, with valid voxel sizes
InitAgg == InitMergeOn(AttrFiles, ValidSizes, {"x86"})

SpecAgg == InitAgg /\ [][MergeNext]_vars

\* the merge in a process in which np.mean can raise
MergeNextRaising ==
    \/ MergeNext
    \/ MergeAggregateRaising

InitRaising == InitMergeOn(IntFiles, ValidSizes, {"x86"})

SpecRaising == InitRaising /\ [][MergeNextRaising]_vars

\* the script is run again with the same voxel size on the file it wrote
MergeFeedBack ==
    /\ prog = "lod_merge" /\ pc = "done" /\ run = 1
    /\ pc' = "start"
    /\ run' = 2
    /\ firstOut' = output
    /\ ply' = [names |-> output.names, rows |-> output.rows]
    /\ data' = <<>> /\ vox_keys' = <<>> /\ voxel_dict' = <<>> /\ merged' = <<>>
    /\ caught' = {}
    /\ printed' = NoSummary
    /\ UNCHANGED <<gui, serverVars>>
    /\ UNCHANGED <<prog, argc, voxel_size, keep_pct, build, lodVars, exc, output>>

MergeNextAgain ==
    \/ MergeUsage
    \/ MergeLoad
    \/ MergeHash
    \/ MergeGroup
    \/ MergeAlloc
    \/ MergeAggregate
    \/ MergeNormalize
    \/ MergeWrite
    \/ MergeFeedBack

\* the merge of position-only files followed by the merge of its output
SpecAgain == InitMerge /\ [][MergeNextAgain]_vars

\* the merge over files whose points are many voxels away from the origin
InitFar == InitMergeOn(FarFiles, FarSizes, Builds)

SpecFar == InitFar /\ [][MergeNext]_vars

---------------------------------------------------------------------------
(* lod.py: main() *)

\* int(total * keep_ratio); int() drops the fraction
KeepCount(n, pct) == TruncDiv(n * pct, 100)

\* a choice that refuses an empty population even when nothing is drawn
ChoiceRaisesOnEmpty(n, k) == k < 0 \/ k > n \/ n <= 0

\* np.random.choice(n, k, replace=False) raises ValueError
ChoiceRaises(n, k) == k < 0 \/ k > n \/ (n <= 0 /\ k # 0)

\* a draw that never returns
ChoiceNever(n, k) == {}

\* a draw with replacement
ChoiceWithReplacement(n, k) == [1..k -> 0..(n - 1)]

\* what np.random.choice(n, k, replace=False) can return: the process-wide
\* generator is seeded from the operating system, so any arrangement of k
\* distinct indices
ChoiceOutcomes(n, k) ==
    {s \in [1..k -> 0..(n - 1)] : \A i, j \in 1..k : i # j => s[i] # s[j]}

\* vertices_np[idx]
Take(d, ix) == [j \in 1..Len(ix) |-> d[ix[j] + 1]]

\* the property declaration of an attribute in the header of the input
\* file, as PlyData.read finds it
Declared(name) ==
    CASE Kind(name) = "f4" -> <<"float">>
      [] Kind(name) = "u1" -> <<"uchar">>
      [] name = "weights" -> <<"list", "uchar", "float">>
      [] OTHER -> <<"list", "uchar", "int">>

\* the property PlyElement.describe(reduced, 'vertex') declares for a field
\* of the array: a scalar field keeps the type of its dtype; an object field
\* becomes a list property with the defaults len_types 'u1', val_types 'i4'
Described(name) ==
    CASE Kind(name) = "f4" -> <<"float">>
      [] Kind(name) = "u1" -> <<"uchar">>
      [] OTHER -> <<"list", "uchar", "int">>

\* the schema of the input element and of the element that is written
InputSchema(names) == [i \in 1..Len(names) |-> Declared(names[i])]
OutputSchema(names) == [i \in 1..Len(names) |-> Described(names[i])]

\* what write() stores for one cell: the cells of a list property are cast
\* to the declared value type, and a cast of a float to int drops the fraction
WrittenCell(name, v) ==
    IF Declared(name) = <<"list", "uchar", "float">>
           /\ Described(name) = <<"list", "uchar", "int">>
    THEN [k \in 1..Len(v) |-> WeightUnits * TruncDiv(v[k], WeightUnits)]
    ELSE v

\* the records of the file that PlyData([vertex_el]).write leaves on disk
Written(rows) ==
    [j \in 1..Len(rows) |-> [n \in DOMAIN rows[j] |-> WrittenCell(n, rows[j][n])]]

InitLod ==
    /\ prog = "lod"
    /\ pc = "start"
    /\ run = 1
    /\ argc \in {3, 4}
    /\ voxel_size = 0
    /\ keep_pct \in KeepPcts
    /\ ply \in SubFiles
    /\ build = "x86"
    /\ data = <<>> /\ vox_keys = <<>> /\ voxel_dict = <<>> /\ merged = <<>>
    /\ total = 0 /\ keep = 0 /\ idx = <<>> /\ reduced = <<>>
    /\ exc = "none"
    /\ caught = {}
    /\ output = NoOutput
    /\ firstOut = NoOutput
    /\ printed = NoSummary
    /\ gui = GuiAtStart
    /\ ServerAtImport

\* lines 6-9
LodUsage ==
    /\ prog = "lod" /\ pc = "start" /\ argc < 4
    /\ pc' = "usage"
    /\ UNCHANGED <<caught, printed, gui, serverVars>>
    /\ UNCHANGED <<run, inputVars, mergeVars, lodVars, exc, output, firstOut>>

\* lines 11-20
LodLoad ==
    /\ prog = "lod" /\ pc = "start" /\ argc >= 4
    /\ pc' = "loaded"
    /\ data' = ply.rows
    /\ UNCHANGED <<caught, printed, gui, serverVars>>
    /\ UNCHANGED <<run, inputVars, vox_keys, voxel_dict, merged, lodVars, exc,
                   output, firstOut>>

\* lines 22-26
LodCount ==
    /\ prog = "lod" /\ pc = "loaded"
    /\ pc' = "counted"
    /\ total' = Len(data)
    /\ keep' = KeepCount(Len(data), keep_pct)
    /\ printed' = LodSummary(total', keep')
    /\ UNCHANGED <<caught, gui, serverVars>>
    /\ UNCHANGED <<run, inputVars, mergeVars, idx, reduced, exc, output, firstOut>>

\* line 28, when the draw succeeds
LodChoice ==
    /\ prog = "lod" /\ pc = "counted" /\ ~ChoiceRaises(total, keep)
    /\ pc' = "drawn"
    /\ idx' \in ChoiceOutcomes(total, keep)
    /\ UNCHANGED <<caught, printed, gui, serverVars>>
    /\ UNCHANGED <<run, inputVars, mergeVars, total, keep, reduced, exc, output,
                   firstOut>>

\* line 28, when np.random.choice raises: the exception leaves main()
LodChoiceRaise ==
    /\ prog = "lod" /\ pc = "counted" /\ ChoiceRaises(total, keep)
    /\ pc' = "raised"
    /\ exc' = "ValueError"
    /\ UNCHANGED <<caught, printed, gui, serverVars>>
    /\ UNCHANGED <<run, inputVars, mergeVars, lodVars, output, firstOut>>

\* line 29
LodTake ==
    /\ prog = "lod" /\ pc = "drawn"
    /\ pc' = "taken"
    /\ reduced' = Take(data, idx)
    /\ UNCHANGED <<caught, printed, gui, serverVars>>
    /\ UNCHANGED <<run, inputVars, mergeVars, total, keep, idx, exc, output,
                   firstOut>>

\* lines 31-35
LodWrite ==
    /\ prog = "lod" /\ pc = "taken"
    /\ pc' = "done"
    /\ output' = [written |-> TRUE, names |-> ply.names, rows |-> Written(reduced)]
    /\ UNCHANGED <<caught, printed, gui, serverVars>>
    /\ UNCHANGED <<run, inputVars, mergeVars, lodVars, exc, firstOut>>

\* the same command line is run a second time on the same input file
LodRerun ==
    /\ prog = "lod" /\ pc = "done" /\ run = 1
    /\ pc' = "start"
    /\ run' = 2
    /\ firstOut' = output
    /\ data' = <<>>
    /\ total' = 0 /\ keep' = 0 /\ idx' = <<>> /\ reduced' = <<>>
    /\ printed' = NoSummary
    /\ UNCHANGED <<caught, gui, serverVars>>
    /\ UNCHANGED <<inputVars, vox_keys, voxel_dict, merged, exc, output>>

LodNext ==
    \/ LodUsage
    \/ LodLoad
    \/ LodCount
    \/ LodChoice
    \/ LodChoiceRaise
    \/ LodTake
    \/ LodWrite
    \/ LodRerun

SpecLod == InitLod /\ [][LodNext]_vars

\* input files of the subsampler that have attributes besides the position
CopyFiles == IntFiles \cup WeightFiles

InitCopy ==
    /\ prog = "lod"
    /\ pc = "start"
    /\ run = 1
    /\ argc \in {3, 4}
    /\ voxel_size = 0
    /\ keep_pct \in KeepPcts
    /\ ply \in CopyFiles
    /\ build = "x86"
    /\ data = <<>> /\ vox_keys = <<>> /\ voxel_dict = <<>> /\ merged = <<>>
    /\ total = 0 /\ keep = 0 /\ idx = <<>> /\ reduced = <<>>
    /\ exc = "none"
    /\ caught = {}
    /\ output = NoOutput
    /\ firstOut = NoOutput
    /\ printed = NoSummary
    /\ gui = GuiAtStart
    /\ ServerAtImport

\* the subsampler over files with attributes
SpecCopy == InitCopy /\ [][LodNext]_vars

\* either strategy: the merge over the attribute files or the subsampler
InitReduce == InitAgg \/ InitLod

ReduceNext ==
    \/ MergeNext
    \/ LodNext

SpecReduce == InitReduce /\ [][ReduceNext]_vars

\* either strategy over the files of the subsampler, every voxel size and
\* every keep ratio
InitTerminate == InitMergeOn(SubFiles, VoxelSizes, Builds) \/ InitLod

\* a script is one thread of one process: while a statement remains to be
\* run, the interpreter runs it.  Every step of a script moves pc or run.
SpecTerminate ==
    InitTerminate /\ [][ReduceNext]_vars /\ WF_<<pc, run>>(ReduceNext)

---------------------------------------------------------------------------
(* server.py: POST /compress and the background task it starts.  Flask      *)
(* serves every request on a thread of its own, and every task is a thread; *)
(* the steps below are the stretches between two accesses to the globals.   *)
(* The task id, eight hex digits of a uuid4, is the number of the call.     *)

\* the point sets uploaded by the two calls: two points, three points
UploadRows(c) ==
    IF c = 1 THEN <<GeoRow(<<0, 0, 0>>), GeoRow(<<1, 0, 0>>)>>
    ELSE <<GeoRow(<<3, 3, 3>>), GeoRow(<<0, 3, 0>>), GeoRow(<<0, 0, -1>>)>>

\* keep ratios sent with the form, in hundredths
FormPcts == {50, 100, 150}

\* the request has a .ply file, has no file, has a file of another kind
RequestKinds == {"ok", "nofile", "notply"}

\* a request with a .ply file and any of the ratios, or a request without one
Requests(c) ==
    {[NoCall EXCEPT !.pc = "request", !.kind = k, !.rows = UploadRows(c),
                    !.keep_ratio = r] : k \in {"ok"}, r \in FormPcts}
    \cup {[NoCall EXCEPT !.pc = "request", !.kind = k, !.rows = UploadRows(c),
                         !.keep_ratio = 50] : k \in RequestKinds \ {"ok"}}

InitServer ==
    /\ prog = "server"
    /\ pc = "serving"
    /\ run = 1
    /\ argc = 1
    /\ voxel_size = 0
    /\ keep_pct = 0
    /\ ply = [names |-> GeoNames, rows |-> <<>>]
    /\ build = "x86"
    /\ data = <<>> /\ vox_keys = <<>> /\ voxel_dict = <<>> /\ merged = <<>>
    /\ total = 0 /\ keep = 0 /\ idx = <<>> /\ reduced = <<>>
    /\ exc = "none"
    /\ caught = {}
    /\ output = NoOutput
    /\ firstOut = NoOutput
    /\ printed = NoSummary
    /\ gui = GuiAtStart
    /\ getters = [g \in Getters |-> NoGetter]
    /\ cleaner = NoCleaner
    /\ progress_data = IdleProgress
    /\ current_task_data = NoTask
    /\ uploads = {}
    /\ results = {}
    /\ calls \in {f \in [Calls -> UNION {Requests(c) : c \in Calls}] :
                     \A c \in Calls : f[c] \in Requests(c)}

scriptVars == <<prog, pc, run, argc, voxel_size, keep_pct, ply, build, data,
                vox_keys, voxel_dict, merged, total, keep, idx, reduced, exc,
                caught, output, firstOut, printed>>

FileOf(dir, id) == {f \in dir : f.id = id}

\* a handler that resets the globals before it looks at the request
CompressRejectAfterReset(c) ==
    /\ prog = "server" /\ calls[c].pc = "request" /\ calls[c].kind # "ok"
    /\ progress_data' = IdleProgress
    /\ current_task_data' = NoTask
    /\ calls' = [calls EXCEPT ![c].pc = "rejected", ![c].response = 400]
    /\ UNCHANGED <<scriptVars, gui, getters, cleaner, uploads, results>>

\* lines 202-209: the request is refused with status 400
CompressReject(c) ==
    /\ prog = "server" /\ calls[c].pc = "request" /\ calls[c].kind # "ok"
    /\ calls' = [calls EXCEPT ![c].pc = "rejected", ![c].response = 400]
    /\ UNCHANGED <<scriptVars, gui, getters, cleaner, progress_data, current_task_data, uploads, results>>

\* lines 202-223: the globals are bound to fresh dicts
CompressReset(c) ==
    /\ prog = "server" /\ calls[c].pc = "request" /\ calls[c].kind = "ok"
    /\ progress_data' = IdleProgress
    /\ current_task_data' = NoTask
    /\ calls' = [calls EXCEPT ![c].pc = "reset"]
    /\ UNCHANGED <<scriptVars, gui, getters, cleaner, uploads, results>>

\* lines 226-232: the upload is saved and entered in current_task_data
CompressSave(c) ==
    /\ prog = "server" /\ calls[c].pc = "reset"
    /\ uploads' = (uploads \ FileOf(uploads, c)) \cup {[id |-> c, rows |-> calls[c].rows]}
    /\ current_task_data' = [current_task_data EXCEPT !.input_path = c, !.task_id = c]
    /\ calls' = [calls EXCEPT ![c].pc = "saved"]
    /\ UNCHANGED <<scriptVars, gui, getters, cleaner, progress_data, results>>

\* the number of requests answered with 202 so far
Accepted == Cardinality({d \in Calls : calls[d].response = 202})

\* lines 235-245: the task thread is started and 202 is returned
CompressStart(c) ==
    /\ prog = "server" /\ calls[c].pc = "saved"
    /\ calls' = [calls EXCEPT ![c].pc = "started", ![c].response = 202,
                              ![c].order = 1 + Accepted]
    /\ UNCHANGED <<scriptVars, gui, getters, cleaner, progress_data, current_task_data, uploads, results>>

\* lines 122-124
TaskBegin(c) ==
    /\ prog = "server" /\ calls[c].pc = "started"
    /\ progress_data' = [status |-> "processing", progress |-> 10,
                         message |-> <<"Reading PLY file...">>]
    /\ calls' = [calls EXCEPT ![c].pc = "reading"]
    /\ UNCHANGED <<scriptVars, gui, getters, cleaner, current_task_data, uploads, results>>

\* lines 126-136
TaskRead(c) ==
    /\ prog = "server" /\ calls[c].pc = "reading"
    /\ \E f \in FileOf(uploads, c) :
           calls' = [calls EXCEPT ![c].pc = "counted",
                                  ![c].total = Len(f.rows),
                                  ![c].keep = KeepCount(Len(f.rows), calls[c].keep_ratio)]
    /\ UNCHANGED <<scriptVars, gui, getters, cleaner, progress_data, current_task_data, uploads, results>>

\* lines 126-128, when the upload is no longer there: PlyData.read raises
TaskReadFail(c) ==
    /\ prog = "server" /\ calls[c].pc = "reading"
    /\ FileOf(uploads, c) = {}
    /\ calls' = [calls EXCEPT ![c].pc = "failing", ![c].error = "FileNotFoundError"]
    /\ UNCHANGED <<scriptVars, gui, getters, cleaner, progress_data, current_task_data, uploads, results>>

\* lines 138-142, when the draw succeeds
TaskSample(c) ==
    /\ prog = "server" /\ calls[c].pc = "counted"
    /\ ~ChoiceRaises(calls[c].total, calls[c].keep)
    /\ progress_data' = [progress_data EXCEPT !.progress = 30,
                                              !.message = <<"Random sampling points...">>]
    /\ \E ix \in ChoiceOutcomes(calls[c].total, calls[c].keep) :
           calls' = [calls EXCEPT ![c].pc = "sampled", ![c].idx = ix,
                                  ![c].reduced = Take(calls[c].rows, ix)]
    /\ UNCHANGED <<scriptVars, gui, getters, cleaner, current_task_data, uploads, results>>

\* lines 138-141, when np.random.choice raises
TaskSampleRaise(c) ==
    /\ prog = "server" /\ calls[c].pc = "counted"
    /\ ChoiceRaises(calls[c].total, calls[c].keep)
    /\ progress_data' = [progress_data EXCEPT !.progress = 30,
                                              !.message = <<"Random sampling points...">>]
    /\ calls' = [calls EXCEPT ![c].pc = "failing", ![c].error = "ValueError"]
    /\ UNCHANGED <<scriptVars, gui, getters, cleaner, current_task_data, uploads, results>>

\* lines 144-151
TaskWrite(c) ==
    /\ prog = "server" /\ calls[c].pc = "sampled"
    /\ progress_data' = [progress_data EXCEPT !.progress = 60,
                                              !.message = <<"Creating compressed PLY...">>]
    /\ results' = (results \ FileOf(results, c))
                       \cup {[id |-> c, rows |-> Written(calls[c].reduced)]}
    /\ calls' = [calls EXCEPT ![c].pc = "written"]
    /\ UNCHANGED <<scriptVars, gui, getters, cleaner, current_task_data, uploads>>

\* lines 153-159
TaskDeleteInput(c) ==
    /\ prog = "server" /\ calls[c].pc = "written"
    /\ uploads' = uploads \ FileOf(uploads, c)
    /\ calls' = [calls EXCEPT ![c].pc = "deleted"]
    /\ UNCHANGED <<scriptVars, gui, getters, cleaner, progress_data, current_task_data, results>>

\* the message of line 168
CompleteMessage(k, n) == <<"Compression complete!", k, n>>

\* lines 161-173
TaskPublish(c) ==
    /\ prog = "server" /\ calls[c].pc = "deleted"
    /\ current_task_data' = [input_path |-> 0, result_path |-> c, task_id |-> c]
    /\ progress_data' = [status |-> "completed", progress |-> 100,
                         message |-> CompleteMessage(calls[c].keep, calls[c].total)]
    /\ calls' = [calls EXCEPT ![c].pc = "completed", ![c].timer = "pending"]
    /\ UNCHANGED <<scriptVars, gui, getters, cleaner, uploads, results>>

\* an exception handler that removes the upload and reports nothing
TaskFailSilent(c) ==
    /\ prog = "server" /\ calls[c].pc = "failing"
    /\ uploads' = uploads \ FileOf(uploads, c)
    /\ calls' = [calls EXCEPT ![c].pc = "error"]
    /\ UNCHANGED <<scriptVars, gui, getters, cleaner, progress_data, current_task_data, results>>

\* an exception handler that reports the error and leaves the upload
TaskFailKeep(c) ==
    /\ prog = "server" /\ calls[c].pc = "failing"
    /\ progress_data' = [progress_data EXCEPT !.status = "error",
                                              !.message = <<calls[c].error>>]
    /\ calls' = [calls EXCEPT ![c].pc = "error"]
    /\ UNCHANGED <<scriptVars, gui, getters, cleaner, current_task_data, uploads, results>>

\* lines 175-185
TaskFail(c) ==
    /\ prog = "server" /\ calls[c].pc = "failing"
    /\ progress_data' = [progress_data EXCEPT !.status = "error",
                                              !.message = <<calls[c].error>>]
    /\ uploads' = uploads \ FileOf(uploads, c)
    /\ calls' = [calls EXCEPT ![c].pc = "error"]
    /\ UNCHANGED <<scriptVars, gui, getters, cleaner, current_task_data, results>>

\* lines 45-52: the thread of schedule_file_cleanup wakes after its delay
ScheduledCleanup(c) ==
    /\ prog = "server" /\ calls[c].timer = "pending"
    /\ results' = results \ FileOf(results, c)
    /\ calls' = [calls EXCEPT ![c].timer = "fired"]
    /\ UNCHANGED <<scriptVars, gui, getters, cleaner, progress_data, current_task_data, uploads>>

\* lines 58-90: the periodic thread removes a file it finds older than
\* MAX_FILE_AGE_MINUTES
CleanupOldUpload ==
    /\ prog = "server"
    /\ \E f \in uploads : uploads' = uploads \ {f}
    /\ UNCHANGED <<scriptVars, gui, getters, cleaner, progress_data, current_task_data, results, calls>>

CleanupOldResult ==
    /\ prog = "server"
    /\ \E f \in results : results' = results \ {f}
    /\ UNCHANGED <<scriptVars, gui, getters, cleaner, progress_data, current_task_data, uploads, calls>>

---------------------------------------------------------------------------
(* server.py: GET /result and POST /cleanup *)

\* lines 257-260: there is no result path, or no file under it
ResultMissing(g) ==
    /\ prog = "server" /\ getters[g].pc = "none"
    /\ FileOf(results, current_task_data.result_path) = {}
    /\ getters' = [getters EXCEPT ![g].pc = "done", ![g].response = 404]
    /\ UNCHANGED <<scriptVars, gui, cleaner, progress_data, current_task_data, uploads, results, calls>>

\* lines 257-259: the result path is read and its file exists
ResultFound(g) ==
    /\ prog = "server" /\ getters[g].pc = "none"
    /\ FileOf(results, current_task_data.result_path) # {}
    /\ getters' = [getters EXCEPT ![g].pc = "found",
                                  ![g].path = current_task_data.result_path]
    /\ UNCHANGED <<scriptVars, gui, cleaner, progress_data, current_task_data, uploads, results, calls>>

\* lines 262-269: send_file opens the file
ResultSend(g) ==
    /\ prog = "server" /\ getters[g].pc = "found"
    /\ FileOf(results, getters[g].path) # {}
    /\ getters' = [getters EXCEPT ![g].pc = "sent", ![g].served = getters[g].path]
    /\ UNCHANGED <<scriptVars, gui, cleaner, progress_data, current_task_data, uploads, results, calls>>

\* lines 262-269 and 289-290: the file has gone since line 259
ResultSendFail(g) ==
    /\ prog = "server" /\ getters[g].pc = "found"
    /\ FileOf(results, getters[g].path) = {}
    /\ getters' = [getters EXCEPT ![g].pc = "done", ![g].response = 500]
    /\ UNCHANGED <<scriptVars, gui, cleaner, progress_data, current_task_data, uploads, results, calls>>

\* lines 272-282: the thread of cleanup_after_download is started
ResultSpawn(g) ==
    /\ prog = "server" /\ getters[g].pc = "sent"
    /\ getters' = [getters EXCEPT ![g].pc = "spawned", ![g].sweeper = "pending"]
    /\ UNCHANGED <<scriptVars, gui, cleaner, progress_data, current_task_data, uploads, results, calls>>

\* a handler that returns the file and leaves the result path as it is
ResultKeep(g) ==
    /\ prog = "server" /\ getters[g].pc = "spawned"
    /\ getters' = [getters EXCEPT ![g].pc = "returned", ![g].response = 200]
    /\ UNCHANGED <<scriptVars, gui, cleaner, progress_data, current_task_data, uploads, results, calls>>

\* lines 285-287: the result path is cleared and the file is returned
ResultClear(g) ==
    /\ prog = "server" /\ getters[g].pc = "spawned"
    /\ current_task_data' = [current_task_data EXCEPT !.result_path = 0]
    /\ getters' = [getters EXCEPT ![g].pc = "returned", ![g].response = 200]
    /\ UNCHANGED <<scriptVars, gui, cleaner, progress_data, uploads, results, calls>>

\* lines 272-278: cleanup_after_download removes the file
ResultSweep(g) ==
    /\ prog = "server" /\ getters[g].sweeper = "pending"
    /\ results' = results \ FileOf(results, getters[g].path)
    /\ getters' = [getters EXCEPT ![g].sweeper = "done"]
    /\ UNCHANGED <<scriptVars, gui, cleaner, progress_data, current_task_data, uploads, calls>>

\* lines 300-305: the input file of current_task_data is removed
CleanupInput ==
    /\ prog = "server" /\ cleaner.pc = "none"
    /\ IF FileOf(uploads, current_task_data.input_path) # {}
       THEN /\ uploads' = uploads \ FileOf(uploads, current_task_data.input_path)
            /\ current_task_data' = [current_task_data EXCEPT !.input_path = 0]
       ELSE UNCHANGED <<uploads, current_task_data>>
    /\ cleaner' = [cleaner EXCEPT !.pc = "input"]
    /\ UNCHANGED <<scriptVars, gui, getters, progress_data, results, calls>>

\* lines 307-312: the result file of current_task_data is removed
CleanupResult ==
    /\ prog = "server" /\ cleaner.pc = "input"
    /\ IF FileOf(results, current_task_data.result_path) # {}
       THEN /\ results' = results \ FileOf(results, current_task_data.result_path)
            /\ current_task_data' = [current_task_data EXCEPT !.result_path = 0]
       ELSE UNCHANGED <<results, current_task_data>>
    /\ cleaner' = [cleaner EXCEPT !.pc = "result"]
    /\ UNCHANGED <<scriptVars, gui, getters, progress_data, uploads, calls>>

\* lines 314-334: every file of both directories is removed
CleanupSweep ==
    /\ prog = "server" /\ cleaner.pc = "result"
    /\ uploads' = {}
    /\ results' = {}
    /\ cleaner' = [pc |-> "done", response |-> 200]
    /\ UNCHANGED <<scriptVars, gui, getters, progress_data, current_task_data, calls>>

ServerNext ==
    \/ \E c \in Calls :
        \/ CompressReject(c)
        \/ CompressReset(c)
        \/ CompressSave(c)
        \/ CompressStart(c)
        \/ TaskBegin(c)
        \/ TaskRead(c)
        \/ TaskReadFail(c)
        \/ TaskSample(c)
        \/ TaskSampleRaise(c)
        \/ TaskWrite(c)
        \/ TaskDeleteInput(c)
        \/ TaskPublish(c)
        \/ TaskFail(c)
        \/ ScheduledCleanup(c)
    \/ CleanupOldUpload
    \/ CleanupOldResult

SpecServer == InitServer /\ [][ServerNext]_vars

\* a step of the thread compress() started for call c
TaskStep(c) ==
    \/ TaskBegin(c)
    \/ TaskRead(c)
    \/ TaskReadFail(c)
    \/ TaskSample(c)
    \/ TaskSampleRaise(c)
    \/ TaskWrite(c)
    \/ TaskDeleteInput(c)
    \/ TaskPublish(c)
    \/ TaskFail(c)

\* the server when every task thread that can run is given the processor
\* again and again; nothing is assumed of the requests and of the cleanups
SpecServerFair == SpecServer /\ \A c \in Calls : WF_vars(TaskStep(c))

\* the server with two downloads and a manual cleanup among the requests
DownloadNext ==
    \/ ServerNext
    \/ \E g \in Getters :
        \/ ResultMissing(g)
        \/ ResultFound(g)
        \/ ResultSend(g)
        \/ ResultSendFail(g)
        \/ ResultSpawn(g)
        \/ ResultClear(g)
        \/ ResultSweep(g)
    \/ CleanupInput
    \/ CleanupResult
    \/ CleanupSweep

\* both calls upload a .ply file and keep half of it, or the first asks for
\* more than there is and the second has no file
InitDownload ==
    /\ InitServer
    /\ calls[1].kind = "ok"
    /\ \/ calls[1].keep_ratio = 50 /\ calls[2].kind = "ok" /\ calls[2].keep_ratio = 50
       \/ calls[1].keep_ratio = 150 /\ calls[2].kind = "nofile"

SpecDownload == InitDownload /\ [][DownloadNext]_vars

\* a merge on the command line, or the server
InitSummary == InitAgg \/ InitServer

SummaryNext ==
    \/ MergeNext
    \/ ServerNext

SpecSummary == InitSummary /\ [][SummaryNext]_vars

---------------------------------------------------------------------------
(* lod_ui.py: the desktop window.  The handlers run on the GUI thread, one  *)
(* at a time; a modal file dialog keeps the buttons of the window out of    *)
(* reach while the event loop goes on delivering the signals of the worker  *)
(* threads.  A WorkerThread runs on a thread of its own.                    *)

\* the files the user can pick: a PLY file, and a file PlyData.read rejects
GuiFiles == {1, 2}
Readable(f) == f = 1

InitGui ==
    /\ prog = "gui"
    /\ pc = "window"
    /\ run = 1
    /\ argc = 1
    /\ voxel_size = 0
    /\ keep_pct = 0
    /\ ply = [names |-> GeoNames, rows |-> <<>>]
    /\ build = "x86"
    /\ data = <<>> /\ vox_keys = <<>> /\ voxel_dict = <<>> /\ merged = <<>>
    /\ total = 0 /\ keep = 0 /\ idx = <<>> /\ reduced = <<>>
    /\ exc = "none"
    /\ caught = {}
    /\ output = NoOutput
    /\ firstOut = NoOutput
    /\ printed = NoSummary
    /\ gui = GuiAtStart
    /\ ServerAtImport

GuiUp == prog = "gui" /\ gui.app = "running"

\* lines 388-391: the import button, which is never disabled, opens the
\* file dialog
ImportOpen ==
    /\ GuiUp /\ gui.dialog = "none"
    /\ gui' = [gui EXCEPT !.dialog = "open"]
    /\ UNCHANGED <<scriptVars, serverVars>>

\* line 393: the dialog is cancelled
ImportCancel ==
    /\ GuiUp /\ gui.dialog = "open"
    /\ gui' = [gui EXCEPT !.dialog = "none"]
    /\ UNCHANGED <<scriptVars, serverVars>>

\* lines 393-412: a file is chosen and read
ImportLoad(f) ==
    /\ GuiUp /\ gui.dialog = "open" /\ Readable(f)
    /\ gui' = [gui EXCEPT !.dialog = "none", !.input_file = f,
                          !.preview_btn = TRUE, !.export_btn = TRUE]
    /\ UNCHANGED <<scriptVars, serverVars>>

\* lines 393-398 and 414-416: a file is chosen and PlyData.read raises
ImportLoadFail(f) ==
    /\ GuiUp /\ gui.dialog = "open" /\ ~Readable(f)
    /\ gui' = [gui EXCEPT !.dialog = "none", !.input_file = f]
    /\ UNCHANGED <<scriptVars, serverVars>>

\* lines 591-597: the export button, when enabled, opens the save dialog
ExportOpen ==
    /\ GuiUp /\ gui.dialog = "none" /\ gui.export_btn /\ gui.input_file # 0
    /\ gui' = [gui EXCEPT !.dialog = "save"]
    /\ UNCHANGED <<scriptVars, serverVars>>

\* line 599: the save dialog is cancelled
ExportCancel ==
    /\ GuiUp /\ gui.dialog = "save"
    /\ gui' = [gui EXCEPT !.dialog = "none"]
    /\ UNCHANGED <<scriptVars, serverVars>>

\* what becomes of the process when line 613 drops the last reference to a
\* QThread: destroying one that is still running is fatal in Qt, unless the
\* object is kept alive
AfterRebind(w) ==
    IF w # 0 /\ gui.workers[w].pc = "running" THEN {"running", "aborted"}
    ELSE {"running"}

\* lines 599-617: the buttons are disabled and a new worker is started
ExportStart(w) ==
    /\ GuiUp /\ gui.dialog = "save"
    /\ gui.workers[w].pc = "none"
    /\ \A v \in Workers : v < w => gui.workers[v].pc # "none"
    /\ \E a \in AfterRebind(gui.worker) :
           gui' = [gui EXCEPT !.dialog = "none", !.export_btn = FALSE,
                              !.preview_btn = FALSE, !.worker = w, !.app = a,
                              !.workers[w] =
                                  IF a = "running"
                                  THEN [pc |-> "running", input |-> gui.input_file,
                                        success |-> FALSE]
                                  ELSE NoWorker]
    /\ UNCHANGED <<scriptVars, serverVars>>

\* lines 28-56: run() ends and emits finished(success, ...)
WorkerRun(w) ==
    /\ GuiUp /\ gui.workers[w].pc = "running"
    /\ gui' = [gui EXCEPT !.workers[w].pc = "emitted",
                          !.workers[w].success = Readable(gui.workers[w].input)]
    /\ UNCHANGED <<scriptVars, serverVars>>

\* lines 619-634: the finished signal is delivered to the window
OnProcessFinished(w) ==
    /\ GuiUp /\ gui.workers[w].pc = "emitted"
    /\ gui' = [gui EXCEPT !.workers[w].pc = "handled",
                          !.export_btn = TRUE, !.preview_btn = TRUE]
    /\ UNCHANGED <<scriptVars, serverVars>>

GuiNext ==
    \/ ImportOpen
    \/ ImportCancel
    \/ \E f \in GuiFiles :
        \/ ImportLoad(f)
        \/ ImportLoadFail(f)
    \/ ExportOpen
    \/ ExportCancel
    \/ \E w \in Workers :
        \/ ExportStart(w)
        \/ WorkerRun(w)
        \/ OnProcessFinished(w)

SpecGui == InitGui /\ [][GuiNext]_vars

---------------------------------------------------------------------------
(* Properties of the voxel merge *)

Grouped == prog = "lod_merge"
           /\ pc \in {"grouped", "allocated", "merged", "normalized", "done"}

\* the places (bucket, position) at which point index i is stored
PlacesOf(i) == {<<j, k>> \in (1..Len(voxel_dict)) \X (1..Len(data)) :
                   k <= Len(voxel_dict[j].indices) /\ voxel_dict[j].indices[k] = i}

\* C1: for voxel_size > 0 the buckets of the grouping partition [0,N): every
\* point index is stored in exactly one bucket and exactly once, and a bucket
\* stores nothing but point indices.
C1_Partition ==
    (Grouped /\ voxel_size > 0) =>
        /\ \A i \in 0..(Len(data) - 1) : Cardinality(PlacesOf(i)) = 1
        /\ \A j \in 1..Len(voxel_dict) : \A k \in 1..Len(voxel_dict[j].indices) :
               voxel_dict[j].indices[k] \in 0..(Len(data) - 1)

\* three points, two of them in one voxel, have been grouped
C1_Witness ==
    /\ prog = "lod_merge" /\ pc = "grouped" /\ voxel_size > 0
    /\ Len(data) = 3 /\ Len(voxel_dict) = 2

\* the voxel keys of the input file, computed point by point
KeyAt(q) == VoxelKey(ply.rows[q], voxel_size, build)
InputKeys == {KeyAt(q) : q \in 1..Len(ply.rows)}
KeysDistinct == \A q, r \in 1..Len(ply.rows) : q # r => KeyAt(q) # KeyAt(r)

\* C2: the merge writes one record per distinct voxel key, so at most N
\* records, and exactly N if and only if no two points share a voxel key.
C2_CountBound ==
    (prog = "lod_merge" /\ pc = "done") =>
        /\ output.written
        /\ Len(output.rows) = Cardinality(InputKeys)
        /\ Len(output.rows) <= Len(ply.rows)
        /\ (Len(output.rows) = Len(ply.rows)) <=> KeysDistinct

\* a finished merge that folded three points into two records
C2_Witness ==
    /\ prog = "lod_merge" /\ pc = "done" /\ voxel_size > 0
    /\ Len(ply.rows) = 3 /\ Len(output.rows) = 2

\* C9: a second merge of the same file with the same voxel size leaves the
\* same output file: the same records, field values and order.
C9_MergeDeterministic ==
    (prog = "lod_merge" /\ pc = "done" /\ run = 2) => output = firstOut

\* the second of two merges has finished with at least two records
C9_Witness ==
    /\ prog = "lod_merge" /\ pc = "done" /\ run = 2 /\ voxel_size > 0
    /\ Len(output.rows) >= 2 /\ Len(ply.rows) > Len(output.rows)

\* the points at which a voxel key occurs for the first time, in scan order
FirstSeen == {q \in 1..Len(ply.rows) : \A r \in 1..(q - 1) : KeyAt(r) # KeyAt(q)}
\* the i-th of them
NthFirstSeen(i) ==
    CHOOSE q \in FirstSeen : Cardinality({r \in FirstSeen : r <= q}) = i
MembersOf(q) == {r \in 1..Len(ply.rows) : KeyAt(r) = KeyAt(q)}

RECURSIVE SumOver(_, _)
SumOver(S, name) ==
    IF S = {} THEN 0
    ELSE LET r == CHOOSE r \in S : TRUE
         IN ply.rows[r][name] + SumOver(S \ {r}, name)

\* C10: record i of the output is the aggregate of the i-th distinct voxel
\* key in first-encounter order: each of its fields is the mean over the
\* points that have that key.
C10_FirstSeenOrder ==
    (prog = "lod_merge" /\ pc = "done") =>
        /\ Len(output.rows) = Cardinality(FirstSeen)
        /\ \A i \in 1..Len(output.rows) : \A name \in Range(ply.names) :
               LET M == MembersOf(NthFirstSeen(i))
               IN output.rows[i][name] * Cardinality(M) = SumOver(M, name)

\* a finished merge whose first voxel has the larger key and two members
C10_Witness ==
    /\ prog = "lod_merge" /\ pc = "done" /\ voxel_size > 0
    /\ Len(output.rows) = 2
    /\ Cardinality(MembersOf(1)) = 2
    /\ \E q \in 2..Len(ply.rows) : KeyLess(KeyAt(q), KeyAt(1))

\* C4 (as claimed): a merge started with voxel_size <= 0 groups nothing,
\* aggregates nothing, writes nothing, and ends with an error.
C4_RejectsBadVoxelSize ==
    (prog = "lod_merge" /\ argc >= 4 /\ voxel_size <= 0) =>
        /\ voxel_dict = <<>> /\ merged = <<>>
        /\ ~output.written
        /\ pc # "done"
        /\ (pc \notin {"start", "loaded", "hashed"}) => exc # "none"

\* the values of one attribute over the members of output row i
GroupVals(i, name) == Column(data, voxel_dict[i].indices, name)

Numeric(name) == Kind(name) \in {"f4", "u1"}

\* |stored - sum/n| <= 1e-6 * |sum/n|, with both sides multiplied by n
WithinTol(stored, n, sum) == Abs(stored * n - sum) <= Abs(sum) \div (10^6)

\* stored is sum/n with the fraction dropped
IsTruncatedMean(stored, n, sum) ==
    Abs(sum - stored * n) < n /\ Abs(stored * n) <= Abs(sum)

\* every running sum of vals is a float32 number
ExactRunningSums(vals) ==
    \A k \in 1..Len(vals) :
        RoundF32(SumExact(SubSeq(vals, 1, k))) = SumExact(SubSeq(vals, 1, k))

Aggregated == prog = "lod_merge" /\ pc = "merged"

Hashed == prog = "lod_merge"
          /\ pc \in {"hashed", "grouped", "allocated", "merged", "normalized", "done"}

Axes == <<"x", "y", "z">>

\* k is the floor of c / w: k * w <= c < (k + 1) * w
IsFloor(k, c, w) == k * w <= c /\ c < (k + 1) * w

C18_BucketsAscending ==
    Grouped =>
        \A j \in 1..Len(voxel_dict) :
            LET b == voxel_dict[j].indices
            IN /\ \A k \in 1..(Len(b) - 1) : b[k] < b[k + 1]
               /\ \A k \in 1..Len(b) : b[1] <= b[k]

\* a bucket holds the first and the third point, the second lies elsewhere
C18_Witness ==
    /\ prog = "lod_merge" /\ pc = "grouped" /\ voxel_size > 0
    /\ \E j \in 1..Len(voxel_dict) : voxel_dict[j].indices = <<0, 2>>

\* the exact floors of c1 / voxel_size and c2 / voxel_size differ
FloorsDiffer(c1, c2, vs) ==
    IF vs % SizeUnits = 0 THEN c1 \div (vs \div SizeUnits) # c2 \div (vs \div SizeUnits)
    ELSE c1 # c2      \* a voxel is smaller than the quantum of the coordinates

\* C19 (as claimed): two points whose exact floor quotients differ on some
\* axis never have the same int32 voxel key, whatever their distance from
\* the origin.
C19_NoKeyCollision ==
    (Hashed /\ voxel_size > 0) =>
        \A q, r \in 1..Len(data) :
            (\E a \in 1..3 : FloorsDiffer(data[q][Axes[a]], data[r][Axes[a]], voxel_size))
                => vox_keys[q] # vox_keys[r]

\* the smallest original index of output row i's group
MinIndex(i) ==
    CHOOSE q \in Range(voxel_dict[i].indices) :
        \A r \in Range(voxel_dict[i].indices) : q <= r

\* C17 (as claimed): for every voxel group and every attribute that is not
\* numeric, the output row holds the value of the group member with the
\* smallest original index.
C17_FirstMemberValue ==
    Aggregated =>
        \A i \in 1..Len(merged) : \A name \in Range(ply.names) :
            ~Numeric(name) => merged[i][name] = ply.rows[MinIndex(i) + 1][name]

\* C12 (as claimed): whenever the except clause ran for a numeric attribute,
\* the merge has ended with an error and has written no output; the first
\* member's value stands in for a mean only in attributes that are not
\* numeric.
C12_FailureReported ==
    prog = "lod_merge" =>
        \A c \in caught : Numeric(c[2]) => (exc # "none" /\ ~output.written)

Normalized == prog = "lod_merge" /\ pc = "normalized"

HasNormals == {"nx", "ny", "nz"} \subseteq Range(ply.names)

\* the length of the normal averaged over the group of output row i
AveragedLength(i) ==
    Norm(StoredMean("f4", GroupVals(i, "nx")), StoredMean("f4", GroupVals(i, "ny")),
         StoredMean("f4", GroupVals(i, "nz")))

Lcm(a, b) == (a \div Gcd(a, b)) * b

\* the normal of a normalised row as a length over a common denominator
OutDen(row) == Lcm(row["nx"].den, Lcm(row["ny"].den, row["nz"].den))
OutLength(row) ==
    LET d == OutDen(row)
    IN Norm(row["nx"].num * (d \div row["nx"].den), row["ny"].num * (d \div row["ny"].den),
            row["nz"].num * (d \div row["nz"].den))

\* | length - 1 | <= 1e-6
UnitLength(row) == Abs(OutLength(row) - OutDen(row)) <= OutDen(row) \div (10^6)

NormalNameSet == {"nx", "ny", "nz"}

\* C20: the normalisation step changes no field other than nx, ny, nz, and it
\* changes no field at all when one of nx, ny, nz is not in the schema.
C20_NormalizeFrame ==
    [][(prog = "lod_merge" /\ pc = "merged" /\ pc' = "normalized") =>
          /\ Len(merged') = Len(merged)
          /\ \A i \in 1..Len(merged) : \A name \in Range(ply.names) :
                 name \notin NormalNameSet => merged'[i][name] = merged[i][name]
          /\ ~HasNormals => merged' = merged]_vars

\* the normalisation step has run on rows that have nx and ny but no nz
C20_Witness ==
    /\ Normalized /\ ply.names = PartialNames
    /\ Len(merged) = 2
    /\ \E i \in 1..2 : merged[i]["nx"] # 0

---------------------------------------------------------------------------
(* Properties of both strategies *)

\* C13: a reduction of an empty point set, by the merge or by the subsampler,
\* raises nothing, and the output it writes has no records.
C13_EmptyInput ==
    (ply.rows = <<>> /\ argc >= 4) =>
        /\ exc = "none"
        /\ pc # "raised"
        /\ pc = "done" => (output.written /\ output.rows = <<>>)

\* the subsampler has written the output of an empty file
C13_Witness ==
    /\ prog = "lod" /\ pc = "done" /\ ply.rows = <<>> /\ keep_pct = 50
    /\ total = 0 /\ output.written

---------------------------------------------------------------------------
(* Properties of the server *)

\* what /progress and current_task_data say once call c, running alone, has
\* completed
ReportAlone(c) ==
    /\ progress_data = [status |-> "completed", progress |-> 100,
                        message |-> CompleteMessage(KeepCount(Len(UploadRows(c)),
                                                              calls[c].keep_ratio),
                                                    Len(UploadRows(c)))]
    /\ current_task_data = [input_path |-> 0, result_path |-> c, task_id |-> c]

\* C14 (as claimed): whatever the interleaving of two calls over distinct
\* point sets, a completed call has the reduced set and the reported status
\* and summary it would have had alone.
C14_CallsIndependent ==
    prog = "server" =>
        \A c \in Calls :
            calls[c].pc = "completed" =>
                /\ calls[c].reduced = Take(UploadRows(c), calls[c].idx)
                /\ ReportAlone(c)

---------------------------------------------------------------------------
(* Properties of the subsampler *)

ValidRatio == keep_pct \in 0..100

\* C5 (as claimed): a subsampling run with keep_ratio outside [0,1] loads
\* nothing, writes nothing and ends with an error.
C5_RejectsBadRatio ==
    (prog = "lod" /\ argc >= 4 /\ ~ValidRatio) =>
        /\ data = <<>>
        /\ ~output.written
        /\ pc # "done"
        /\ pc # "start" => exc # "none"

C7_AscendingOrder ==
    (prog = "lod" /\ pc = "done") =>
        \A j, k \in 1..Len(idx) : j < k => idx[j] < idx[k]

\* C8 (as claimed): a second subsampling run over the same file with the same
\* keep_ratio, nothing else being given to the program, writes the same
\* output.
C8_SameSeedSameOutput ==
    (prog = "lod" /\ pc = "done" /\ run = 2) => output = firstOut

---------------------------------------------------------------------------
(* Properties of the reported summary *)

\* the message is the summary of line 168
IsSummary(m) == Len(m) = 3 /\ m[1] = "Compression complete!"

---------------------------------------------------------------------------
(* Termination *)

\* the positions at which main() has returned or an exception has left it
Final == {"usage", "done", "raised"}

\* C22: every reduction call over a finite point set terminates: from the
\* start of main(), of the merge or of the subsampler, of the first run or of
\* the repeated one, the script reaches its end.
C22_Terminates == (pc = "start") ~> (pc \in Final)

\* the repeated merge of three points in two voxels has ended
C22_Witness ==
    /\ prog = "lod_merge" /\ pc = "done" /\ run = 2
    /\ Len(data) = 3 /\ Len(voxel_dict) = 2 /\ output.written

---------------------------------------------------------------------------
(* Properties of the server's shared state *)

\* the calls answered with 202 whose answer was the most recent
Latest == {c \in Calls : calls[c].order > 0 /\ calls[c].order = Accepted}

\* the files a /result request arriving now would send
Servable == FileOf(results, current_task_data.result_path)

\* C23 (as claimed): whenever status 'completed' is visible after an accepted
\* /compress, the file /result serves is the output of the task whose id the
\* most recent /compress returned, whatever the interleaving.
C23_ResultOfLatestTask ==
    (prog = "server" /\ Accepted > 0 /\ progress_data.status = "completed") =>
        \A f \in Servable :
            \A c \in Latest : f.id = c /\ f.rows = calls[c].reduced

\* the step is the reset of lines 212-216 by a /compress that will be accepted
IsReset == \E c \in Calls : calls[c].pc = "request" /\ calls'[c].pc = "reset"

\* C24 (as claimed): between one accepted /compress and the next, the progress
\* value /progress exposes never decreases, also while the thread of an
\* earlier task is still running.
C24_ProgressMonotone ==
    [][prog = "server" =>
          (IsReset \/ progress_data'.progress >= progress_data.progress)]_vars

\* the statuses a task ends with
Ended == {"completed", "error"}

\* C25: every /compress answered with 202 is eventually followed by the
\* status 'completed' or 'error', set by the end of its own task, when the
\* task threads are scheduled fairly.
C25_AcceptedEnds ==
    \A c \in Calls :
        (calls[c].pc = "started" /\ calls[c].response = 202) ~>
            (calls[c].pc \in Ended /\ progress_data.status \in Ended)

\* the task of the second call has ended in error: its upload was removed
\* before it was read
C25_Witness ==
    /\ prog = "server" /\ calls[2].response = 202 /\ calls[2].pc = "error"
    /\ calls[2].error = "FileNotFoundError" /\ progress_data.status = "error"

---------------------------------------------------------------------------
(* Properties of the download *)

\* request g has returned the file of task p
Returned(g, p) ==
    getters[g].pc = "returned" /\ getters[g].response = 200 /\ getters[g].path = p

\* request h is being made in this step: it passes lines 257-259
Arrives(h) == getters[h].pc = "none" /\ getters'[h].pc # "none"

---------------------------------------------------------------------------
(* Properties of the upload *)

---------------------------------------------------------------------------
(* Properties of a refused request *)

\* call c is answered 400 in this step
Refused(c) == calls[c].response # 400 /\ calls'[c].response = 400

\* C28: the step that answers a /compress request with 400 leaves
\* progress_data, current_task_data and both directories as they are, and a
\* request so answered has no upload, no result and no task, then and later.
C28_RejectFrame ==
    [][\A c \in Calls :
          /\ Refused(c) =>
                 /\ calls[c].kind \in {"nofile", "notply"}
                 /\ UNCHANGED <<progress_data, current_task_data, uploads, results>>
          /\ calls'[c].response = 400 =>
                 /\ calls'[c].pc = "rejected"
                 /\ calls'[c].order = 0
                 /\ FileOf(uploads', c) = {}
                 /\ FileOf(results', c) = {}]_vars

\* the second call was refused while the task of the first was at 30 percent
C28_Witness ==
    /\ prog = "server"
    /\ calls[2].pc = "rejected" /\ calls[2].response = 400
    /\ calls[1].pc = "sampled" /\ progress_data.progress = 30

---------------------------------------------------------------------------
(* Properties of the desktop window *)

\* the workers whose run() has not returned
Running == {w \in Workers : gui.workers[w].pc = "running"}

\* the workers started whose finished signal has not been handled
Unfinished == {w \in Workers : gui.workers[w].pc \in {"running", "emitted"}}

\* C29 (as claimed): at most one export worker runs at any time, and from
\* the start of a worker until on_process_finished has handled its signal
\* the export button stays disabled, whatever the user does.
C29_SingleWorker ==
    prog = "gui" =>
        /\ Cardinality(Running) <= 1
        /\ Unfinished # {} => ~gui.export_btn

---------------------------------------------------------------------------
(* Properties of a repeated merge *)

\* C30: for voxel_size > 0 the averaged position of every voxel group has
\* the voxel key of the group, and the merge of a merged file with the same
\* voxel size writes the same number of records with the same positions.
C30_MergeIdempotent ==
    (prog = "lod_merge" /\ pc = "done" /\ voxel_size > 0) =>
        /\ \A i \in 1..Len(output.rows) :
               VoxelKey(output.rows[i], voxel_size, build) = DictItems(voxel_dict)[i].key
        /\ run = 2 =>
               /\ Len(output.rows) = Len(firstOut.rows)
               /\ \A i \in 1..Len(output.rows) :
                      \A n \in {"x", "y", "z"} :
                          output.rows[i][n] = firstOut.rows[i][n]

\* three points in two voxels were merged into two records, one of them an
\* average that is none of the points, and the two records were merged again
C30_Witness ==
    /\ prog = "lod_merge" /\ pc = "done" /\ run = 2 /\ voxel_size > 0
    /\ Len(firstOut.rows) = 2 /\ Len(output.rows) = 2
    /\ \E i \in 1..2 : firstOut.rows[i]["x"] = Step \div 2

---------------------------------------------------------------------------
(* Properties of the subsampled records *)

\* the array of line 29 holds, at every position, the input record at the
\* index drawn for that position
ReducedIsCopy ==
    /\ Len(reduced) = Len(idx)
    /\ \A j \in 1..Len(idx) : reduced[j] = ply.rows[idx[j] + 1]

\* C31: every record the subsampler returns is the input record at its
\* selected index with every attribute value unchanged, and the schema of
\* the output (attribute names, their order and their types) is the schema
\* of the input.
C31_UnmodifiedCopy ==
    (prog = "lod" /\ pc = "done") =>
        /\ ReducedIsCopy
        /\ output.names = ply.names
        /\ OutputSchema(output.names) = InputSchema(ply.names)
        /\ Len(output.rows) = Len(idx)
        /\ \A j \in 1..Len(idx) : output.rows[j] = ply.rows[idx[j] + 1]

=============================================================================
